---- MODULE Spec2Model ----
(***************************************************************************)
(* A model of src/src/compilerinstance.cpp: the session builder            *)
(* (createClangCompilerInstance), the AST dispatch layer (ASTVisitor,      *)
(* ASTConsumer) and the facade (CompilerInstance::registerASTCallback,     *)
(* setASTCallbackParameter, processBuffer).                                *)
(*                                                                         *)
(* The parse engine (clang::ParseAST) is a black box.  A source buffer is  *)
(* a sequence of tokens; the engine turns "func" and "var" tokens into     *)
(* declaration nodes, in source order, and "err" and "warn" tokens into    *)
(* diagnostics that it reports to the installed diagnostic consumer.       *)
(***************************************************************************)
EXTENDS Naturals, Sequences, FiniteSets

VARIABLES
    settings,            \* d->compiler_settings
    ast_callback_map,    \* d->ast_callback_map
    callback_parameter,  \* d->callback_parameter
    pc,                  \* position of the processBuffer call of the facade
    buffer,              \* the argument of the call in flight
    compiler,            \* processBuffer's local session handle
    diag,                \* diagnostic_consumer's counts and clang_output_buffer
    ast,                 \* declarations of the translation unit, in walk order
    idx,                 \* position of the traversal in ast
    aborted,             \* a Visit* hook returned false: the traversal stopped
    ret,                 \* the Status the call returns
    log,                 \* history: the callback invocations of this call
    returns,             \* history: what these invocations returned
    startTable,          \* history: ast_callback_map when the call began
    startParam,          \* history: callback_parameter when the call began
    inflightReg,         \* history: registerASTCallback ran during this call
    lastReg,             \* history: latest callback registered for each kind
    replaced,            \* history: a registration replaced another callback
    lastSetParam,        \* history: latest value given to setASTCallbackParameter
    prevError,           \* history: the previous call returned CompilationError
    allocFailed,         \* history: the allocation of this call's session failed
    bld                  \* a createClangCompilerInstance call, step by step

vars == <<settings, ast_callback_map, callback_parameter, pc, buffer, compiler,
          diag, ast, idx, aborted, ret, log, returns, startTable, startParam,
          inflightReg, lastReg, replaced, lastSetParam, prevError, allocFailed,
          bld>>

facadeVars == <<settings, ast_callback_map, callback_parameter, pc, buffer,
                compiler, diag, ast, idx, aborted, ret, log, returns,
                startTable, startParam, inflightReg, lastReg, replaced,
                lastSetParam, prevError, allocFailed>>

(***************************************************************************)
(* Bounds and input sets                                                   *)
(***************************************************************************)
\* Longest source buffer, in tokens.
MaxLen == 3

Tokens == {"func", "var", "err", "warn"}

RECURSIVE SeqsUpTo(_, _)
SeqsUpTo(S, n) ==
    IF n = 0 THEN {<<>>}
    ELSE LET shorter == SeqsUpTo(S, n - 1)
         IN  shorter \cup {Append(q, x) : q \in {t \in shorter : Len(t) = n - 1}, x \in S}

Buffers == SeqsUpTo(Tokens, MaxLen)

\* Language is C or CXX; "Other" is any other value of the enumeration's type.
Languages == {"C", "CXX", "Other"}

Standards == {0, 11, 14, 17, 89, 94, 98, 99}

Profiles ==
    { [root_path |-> "root", resource_dir |-> "res",
       internal_isystem |->
           [l \in {"C", "CXX"} |-> IF l = "C" THEN <<"c_inc">> ELSE <<"cxx_inc", "c_inc">>],
       internal_externc_isystem |-> [l \in {"C"} |-> <<"sys_inc">>]],
      [root_path |-> "root", resource_dir |-> "res",
       internal_isystem |-> [l \in {} |-> <<>>],
       internal_externc_isystem |-> [l \in {} |-> <<>>]] }

\* Each folder with whether stdfs::absolute resolves it without an error.
AdditionalFolders ==
    { <<>>,
      <<[path |-> "extra", resolves |-> TRUE], [path |-> "broken", resolves |-> FALSE]>> }

SettingsSet ==
    [language : Languages, language_standard : Standards,
     enable_gnu_extensions : BOOLEAN, profile : Profiles,
     additional_include_folders : AdditionalFolders]

ASTCallbackTypes == {"Function"}

Callbacks == {"cb1", "cb2"}

\* Values of a table slot: no entry, a null function pointer, or a callback.
Absent == "absent"

NullCallback == "nullptr"

Parameters == {"nullptr", "p1"}

(***************************************************************************)
(* Status                                                                  *)
(***************************************************************************)
Status(succeeded, code, message) ==
    [succeeded |-> succeeded, code |-> code, message |-> message]

\* Status(true): the code defaults to Ok and the message to empty.
StatusSucceeded == Status(TRUE, "Ok", <<>>)

\* Status(false, code): the message defaults to empty.
StatusFailed(code) == Status(FALSE, code, <<>>)

NoStatus == Status(FALSE, "none", <<>>)

(***************************************************************************)
(* The session object, clang::CompilerInstance                             *)
(***************************************************************************)
NewCompilerInstance ==
    [null |-> FALSE,
     UseBuiltinIncludes |-> "default", UseStandardSystemIncludes |-> "default",
     UseStandardCXXIncludes |-> "default", ResourceDir |-> "default",
     UserEntries |-> <<>>,
     CPlusPlus |-> "default", RTTI |-> "default", CXXExceptions |-> "default",
     GNUMode |-> "default", GNUKeywords |-> "default", Bool |-> "default",
     LangDefaults |-> <<>>, Diagnostics |-> FALSE, Target |-> FALSE,
     FileManager |-> FALSE, SourceManager |-> FALSE, Preprocessor |-> FALSE,
     UsePredefines |-> "default", Builtins |-> FALSE,
     ASTConsumer |-> <<>>, ASTContext |-> FALSE]

\* An empty std::unique_ptr<clang::CompilerInstance>.
NullCompiler == [NewCompilerInstance EXCEPT !.null = TRUE]

(***************************************************************************)
(* The session builder, createClangCompilerInstance, as a sequence of      *)
(* steps over the record b of its parameters and locals:                   *)
(*   compiler  the caller's handle (std::unique_ptr, by reference)          *)
(*   obj       the local under construction                                 *)
(*   validated history: which of language and standard passed their check  *)
(*   handle_was_set history: the handle held a session when the call began *)
(* At pc = "returned", obj is the local as the return statement left it.   *)
(***************************************************************************)
DefaultSettings ==
    [language |-> "C", language_standard |-> 11, enable_gnu_extensions |-> FALSE,
     profile |-> [root_path |-> "root", resource_dir |-> "res",
                  internal_isystem |-> [l \in {} |-> <<>>],
                  internal_externc_isystem |-> [l \in {} |-> <<>>]],
     additional_include_folders |-> <<>>]

BuilderCall(handle, s, parameter, alloc_ok) ==
    [pc |-> "reset", settings |-> s, alloc_ok |-> alloc_ok,
     callback_parameter |-> parameter, obj |-> NullCompiler, compiler |-> handle,
     status |-> NoStatus, input_kind |-> "unassigned",
     language_standard |-> "unassigned", validated |-> {},
     handle_was_set |-> ~handle.null]

BuilderIdle ==
    [BuilderCall(NullCompiler, DefaultSettings, "nullptr", TRUE) EXCEPT !.pc = "idle"]

BuilderReturn(b, status) == [b EXCEPT !.status = status, !.pc = "returned"]

\* Variant: ResetHandle with the reset left out.
ResetHandle_Keep(handle) == handle

\* compiler.reset()
ResetHandle(handle) == NullCompiler

StepReset(b) == [b EXCEPT !.compiler = ResetHandle(b.compiler), !.pc = "alloc"]

\* obj = std::make_unique<clang::CompilerInstance>(), or std::bad_alloc
AllocateSession(b) ==
    IF b.alloc_ok
    THEN [b EXCEPT !.obj = NewCompilerInstance, !.pc = "header"]
    ELSE BuilderReturn(b, StatusFailed("MemoryAllocationFailure"))

\* (profile_root / path).string()
JoinPath(root, path) == <<root, path>>

\* stdfs::absolute(path, err): the path under the current directory
AbsolutePath(path) == <<"cwd", path>>

ProfileEntries(map, language, root, group) ==
    IF language \in DOMAIN map
    THEN [i \in 1..Len(map[language]) |->
             [path |-> JoinPath(root, map[language][i]), group |-> group]]
    ELSE <<>>

RECURSIVE AdditionalEntries(_)
AdditionalEntries(folders) ==
    IF folders = <<>> THEN <<>>
    ELSE (IF Head(folders).resolves
          THEN <<[path |-> AbsolutePath(Head(folders).path), group |-> "System"]>>
          ELSE <<>>) \o AdditionalEntries(Tail(folders))

ResolvedEntries(s) ==
    ProfileEntries(s.profile.internal_isystem, s.language, s.profile.root_path, "System")
    \o ProfileEntries(s.profile.internal_externc_isystem, s.language,
                      s.profile.root_path, "ExternCSystem")
    \o AdditionalEntries(s.additional_include_folders)

\* Variant: ConfigureHeaderSearch that also adds the include paths.
ConfigureHeaderSearch_WithPaths(b) ==
    [b EXCEPT !.obj.UseBuiltinIncludes = "0",
              !.obj.UseStandardSystemIncludes = "0",
              !.obj.UseStandardCXXIncludes = "0",
              !.obj.ResourceDir = b.settings.profile.resource_dir,
              !.obj.UserEntries = @ \o ResolvedEntries(b.settings),
              !.pc = "language"]

\* The header search flags and the resource directory.
ConfigureHeaderSearch(b) ==
    [b EXCEPT !.obj.UseBuiltinIncludes = "0",
              !.obj.UseStandardSystemIncludes = "0",
              !.obj.UseStandardCXXIncludes = "0",
              !.obj.ResourceDir = b.settings.profile.resource_dir,
              !.pc = "language"]

LanguageIsValid(language) == ~(language # "C" /\ language # "CXX")

CheckLanguage(b) ==
    IF ~LanguageIsValid(b.settings.language)
    THEN BuilderReturn(b, StatusFailed("InvalidLanguage"))
    ELSE [b EXCEPT !.validated = @ \cup {"language"}, !.pc = "paths"]

AddIncludePaths(b) ==
    [b EXCEPT !.obj.UserEntries = @ \o ResolvedEntries(b.settings), !.pc = "langopts"]

SetLanguageOptions(b) ==
    IF b.settings.language = "CXX"
    THEN [b EXCEPT !.obj.CPlusPlus = "1", !.obj.RTTI = "1",
                   !.obj.CXXExceptions = "1", !.input_kind = "CXX", !.pc = "standard"]
    ELSE [b EXCEPT !.obj.CPlusPlus = "0", !.obj.RTTI = "0",
                   !.obj.CXXExceptions = "0", !.input_kind = "C", !.pc = "standard"]

\* Variant: LangStandardKind with case 98 in place of case 94 for C.
LangStandardKind_C98(language, standard) ==
    IF language = "CXX"
    THEN CASE standard = 98 -> "lang_cxx98"
           [] standard = 11 -> "lang_cxx11"
           [] standard = 14 -> "lang_cxx14"
           [] OTHER -> "invalid"
    ELSE CASE standard = 89 -> "lang_c89"
           [] standard = 98 -> "lang_c99"
           [] standard = 99 -> "lang_c99"
           [] standard = 11 -> "lang_c11"
           [] OTHER -> "invalid"

\* The two switch statements on settings.language_standard.
LangStandardKind(language, standard) ==
    IF language = "CXX"
    THEN CASE standard = 98 -> "lang_cxx98"
           [] standard = 11 -> "lang_cxx11"
           [] standard = 14 -> "lang_cxx14"
           [] OTHER -> "invalid"
    ELSE CASE standard = 89 -> "lang_c89"
           [] standard = 94 -> "lang_c94"
           [] standard = 99 -> "lang_c99"
           [] standard = 11 -> "lang_c11"
           [] OTHER -> "invalid"

SelectLanguageStandard(b) ==
    LET kind == LangStandardKind(b.settings.language, b.settings.language_standard)
    IN  IF kind = "invalid"
        THEN BuilderReturn(b, StatusFailed("InvalidLanguageStandard"))
        ELSE [b EXCEPT !.language_standard = kind,
                       !.validated = @ \cup {"standard"}, !.pc = "gnu"]

SetGnuOptions(b) ==
    [b EXCEPT !.obj.GNUMode = IF b.settings.enable_gnu_extensions THEN "1" ELSE "0",
              !.obj.GNUKeywords = "1", !.obj.Bool = "1", !.pc = "engine"]

\* setLangDefaults, diagnostics, target, file and source manager, preprocessor,
\* builtins
ConfigureEngine(b) ==
    [b EXCEPT !.obj.LangDefaults = <<b.input_kind, b.language_standard>>,
              !.obj.Diagnostics = TRUE, !.obj.Target = TRUE,
              !.obj.FileManager = TRUE, !.obj.SourceManager = TRUE,
              !.obj.Preprocessor = TRUE, !.obj.UsePredefines = "0",
              !.obj.Builtins = TRUE, !.pc = "consumer"]

\* The consumer takes the callback table by reference and the parameter by value.
InstallConsumer(b) ==
    [b EXCEPT !.obj.ASTConsumer = <<[callback_parameter |-> b.callback_parameter]>>,
              !.obj.ASTContext = TRUE, !.pc = "commit"]

\* compiler = std::move(obj); obj.release(); return Status(true)
CommitSession(b) ==
    BuilderReturn([b EXCEPT !.compiler = b.obj, !.obj = NullCompiler], StatusSucceeded)

BuilderStep(b) ==
    CASE b.pc = "reset" -> StepReset(b)
      [] b.pc = "alloc" -> AllocateSession(b)
      [] b.pc = "header" -> ConfigureHeaderSearch(b)
      [] b.pc = "language" -> CheckLanguage(b)
      [] b.pc = "paths" -> AddIncludePaths(b)
      [] b.pc = "langopts" -> SetLanguageOptions(b)
      [] b.pc = "standard" -> SelectLanguageStandard(b)
      [] b.pc = "gnu" -> SetGnuOptions(b)
      [] b.pc = "engine" -> ConfigureEngine(b)
      [] b.pc = "consumer" -> InstallConsumer(b)
      [] b.pc = "commit" -> CommitSession(b)

RECURSIVE RunBuilder(_)
RunBuilder(b) == IF b.pc = "returned" THEN b ELSE RunBuilder(BuilderStep(b))

\* A whole call: the record at its return, with .status and .compiler.
createClangCompilerInstance(handle, s, parameter, alloc_ok) ==
    RunBuilder(BuilderCall(handle, s, parameter, alloc_ok))

(***************************************************************************)
(* The specification of the builder alone: calls of                        *)
(* createClangCompilerInstance on one handle, one step at a time.          *)
(***************************************************************************)
CallBuilder ==
    /\ bld.pc \in {"idle", "returned"}
    /\ \E s \in SettingsSet, p \in Parameters, ok \in BOOLEAN :
          bld' = BuilderCall(bld.compiler, s, p, ok)
    /\ UNCHANGED facadeVars

\* compiler.reset()
B_Reset ==
    /\ bld.pc = "reset"
    /\ bld' = StepReset(bld)
    /\ UNCHANGED facadeVars

\* the allocation of obj
B_Allocate ==
    /\ bld.pc = "alloc"
    /\ bld' = AllocateSession(bld)
    /\ UNCHANGED facadeVars

\* the header search flags and the resource directory
B_HeaderSearch ==
    /\ bld.pc = "header"
    /\ bld' = ConfigureHeaderSearch(bld)
    /\ UNCHANGED facadeVars

\* the check of settings.language
B_CheckLanguage ==
    /\ bld.pc = "language"
    /\ bld' = CheckLanguage(bld)
    /\ UNCHANGED facadeVars

\* the three loops that add include paths
B_AddIncludePaths ==
    /\ bld.pc = "paths"
    /\ bld' = AddIncludePaths(bld)
    /\ UNCHANGED facadeVars

\* CPlusPlus, RTTI, CXXExceptions and the input kind
B_LanguageOptions ==
    /\ bld.pc = "langopts"
    /\ bld' = SetLanguageOptions(bld)
    /\ UNCHANGED facadeVars

\* the switch on settings.language_standard
B_LanguageStandard ==
    /\ bld.pc = "standard"
    /\ bld' = SelectLanguageStandard(bld)
    /\ UNCHANGED facadeVars

\* GNUMode, GNUKeywords and Bool
B_GnuOptions ==
    /\ bld.pc = "gnu"
    /\ bld' = SetGnuOptions(bld)
    /\ UNCHANGED facadeVars

\* language defaults through builtins
B_Engine ==
    /\ bld.pc = "engine"
    /\ bld' = ConfigureEngine(bld)
    /\ UNCHANGED facadeVars

\* the consumer and the AST context
B_Consumer ==
    /\ bld.pc = "consumer"
    /\ bld' = InstallConsumer(bld)
    /\ UNCHANGED facadeVars

\* the session moves to the caller's handle
B_Commit ==
    /\ bld.pc = "commit"
    /\ bld' = CommitSession(bld)
    /\ UNCHANGED facadeVars

(***************************************************************************)
(* The parse engine                                                        *)
(***************************************************************************)
\* Variant: NewDiagnosticConsumer with the error count of the previous call carried over.
NewDiagnosticConsumer_Carried ==
    [NumErrors |-> IF prevError THEN 1 ELSE 0, NumWarnings |-> 0,
     clang_output_buffer |-> <<>>]

\* The TextDiagnosticPrinter over the empty clang_output_buffer.
NewDiagnosticConsumer ==
    [NumErrors |-> 0, NumWarnings |-> 0, clang_output_buffer |-> <<>>]

\* The consumer after the engine reported the diagnostic of token i of buf.
HandleDiagnostic(d, buf, i) ==
    CASE buf[i] = "err" ->
            [d EXCEPT !.NumErrors = @ + 1,
                      !.clang_output_buffer = Append(@, <<"error", i>>)]
      [] buf[i] = "warn" ->
            [d EXCEPT !.NumWarnings = @ + 1,
                      !.clang_output_buffer = Append(@, <<"warning", i>>)]
      [] OTHER -> d

RECURSIVE ReportDiagnostics(_, _, _)
ReportDiagnostics(d, buf, i) ==
    IF i > Len(buf) THEN d
    ELSE ReportDiagnostics(HandleDiagnostic(d, buf, i), buf, i + 1)

DeclKind(token) == IF token = "func" THEN "Function" ELSE "Var"

\* The declarations of the translation unit, in the order TraverseDecl visits them.
RECURSIVE ParseDecls(_, _)
ParseDecls(buf, i) ==
    IF i > Len(buf) THEN <<>>
    ELSE (IF buf[i] \in {"func", "var"}
          THEN <<[id |-> i, kind |-> DeclKind(buf[i])]>>
          ELSE <<>>) \o ParseDecls(buf, i + 1)

(***************************************************************************)
(* The facade, CompilerInstance                                            *)
(***************************************************************************)
\* The settings a facade is constructed with: every language, standards that
\* are valid for both, one or none of the languages; one profile, one list of
\* extra folders.
FacadeStandards == {0, 11, 89, 98}

FacadeSettings ==
    {s \in SettingsSet :
        /\ s.language_standard \in FacadeStandards
        /\ s.enable_gnu_extensions
        /\ s.profile.internal_isystem # <<>>
        /\ s.additional_include_folders # <<>>}

\* Variant: MapAssign as an insert that keeps an existing entry.
MapAssign_KeepFirst(map, type, callback) ==
    IF map[type] = Absent THEN [map EXCEPT ![type] = callback] ELSE map

\* d->ast_callback_map[type] = callback
MapAssign(map, type, callback) == [map EXCEPT ![type] = callback]

\* Variant: BuildFailed with the test left out.
BuildFailed_Never(status) == FALSE

\* if (!status.succeeded()) return status;
BuildFailed(status) == ~status.succeeded

\* Variant: VisitorCallbackMap as a copy taken when the call began.
VisitorCallbackMap_Copy == startTable

\* The table the visitor reads: ASTCallbackMap &ast_callback_map, a reference to
\* the facade's table.
VisitorCallbackMap == ast_callback_map

\* Variant: VisitorCallbackParameter as a read of the facade's live value.
VisitorCallbackParameter_Live == callback_parameter

\* The parameter the visitor passes: void *callback_parameter, the value the
\* consumer was constructed with.
VisitorCallbackParameter ==
    IF compiler.ASTConsumer = <<>> THEN "nullptr"
    ELSE compiler.ASTConsumer[1].callback_parameter

\* dispatchEvent's lookup: the callback to invoke, or nullptr for none.
LookupCallback(map, type) ==
    IF map[type] = Absent THEN NullCallback ELSE map[type]

\* Variant: TraversalContinues with the result ignored.
TraversalContinues_Always(result) == TRUE

\* RecursiveASTVisitor goes on while the Visit* hook returns true.
TraversalContinues(result) == result

\* Variant: ParseStatus with the two tests swapped.
ParseStatus_WarningsFirst(d) ==
    IF d.NumWarnings # 0
    THEN Status(TRUE, "CompilationWarning", d.clang_output_buffer)
    ELSE IF d.NumErrors # 0
         THEN Status(FALSE, "CompilationError", d.clang_output_buffer)
         ELSE StatusSucceeded

\* The Status processBuffer returns after the parse.
ParseStatus(d) ==
    IF d.NumErrors # 0
    THEN Status(FALSE, "CompilationError", d.clang_output_buffer)
    ELSE IF d.NumWarnings # 0
         THEN Status(TRUE, "CompilationWarning", d.clang_output_buffer)
         ELSE StatusSucceeded

NoTable == [t \in ASTCallbackTypes |-> Absent]

InitWith(s) ==
    /\ settings = s
    /\ ast_callback_map = NoTable
    /\ callback_parameter = "nullptr"
    /\ pc = "idle"
    /\ prevError = FALSE
    /\ buffer = <<>>
    /\ compiler = NullCompiler
    /\ diag = NewDiagnosticConsumer
    /\ ast = <<>>
    /\ idx = 0
    /\ aborted = FALSE
    /\ ret = NoStatus
    /\ log = <<>>
    /\ returns = <<>>
    /\ startTable = NoTable
    /\ startParam = "nullptr"
    /\ inflightReg = FALSE
    /\ lastReg = NoTable
    /\ replaced = FALSE
    /\ lastSetParam = "nullptr"
    /\ allocFailed = FALSE
    /\ bld = BuilderIdle

\* The facade after construction: d->compiler_settings = settings.
Init == \E s \in FacadeSettings : InitWith(s)

\* registerASTCallback, between calls or from inside a callback
RegisterASTCallback ==
    /\ pc \in {"idle", "in_callback"}
    /\ \E type \in ASTCallbackTypes, callback \in Callbacks \cup {NullCallback} :
          /\ ast_callback_map' = MapAssign(ast_callback_map, type, callback)
          /\ lastReg' = [lastReg EXCEPT ![type] = callback]
          /\ replaced' = (replaced \/ (lastReg[type] \in Callbacks /\ callback # lastReg[type]))
    /\ inflightReg' = (inflightReg \/ pc = "in_callback")
    /\ UNCHANGED <<settings, callback_parameter, pc, buffer, compiler, diag, ast,
                   idx, aborted, ret, log, returns, startTable, startParam,
                   lastSetParam, prevError, allocFailed, bld>>

\* setASTCallbackParameter, between calls or from inside a callback
SetASTCallbackParameter ==
    /\ pc \in {"idle", "in_callback"}
    /\ \E user_defined \in Parameters :
          /\ callback_parameter' = user_defined
          /\ lastSetParam' = user_defined
    /\ UNCHANGED <<settings, ast_callback_map, pc, buffer, compiler, diag, ast,
                   idx, aborted, ret, log, returns, startTable, startParam,
                   inflightReg, lastReg, replaced, prevError, allocFailed, bld>>

\* processBuffer up to the start of the traversal: the session is built; if
\* that failed its Status is returned; otherwise the buffer is parsed, the
\* diagnostics reach a new consumer, and HandleTranslationUnit starts the walk.
ProcessBuffer ==
    /\ pc = "idle"
    /\ \E buf \in Buffers, alloc_ok \in BOOLEAN :
          LET built == createClangCompilerInstance(NullCompiler, settings,
                                                   callback_parameter, alloc_ok)
          IN  /\ buffer' = buf
              /\ allocFailed' = ~alloc_ok
              /\ compiler' = built.compiler
              /\ IF BuildFailed(built.status)
                 THEN /\ ret' = built.status
                      /\ pc' = "returned"
                      /\ UNCHANGED <<diag, ast, idx>>
                 ELSE /\ ret' = NoStatus
                      /\ pc' = "walk"
                      /\ diag' = ReportDiagnostics(NewDiagnosticConsumer, buf, 1)
                      /\ ast' = ParseDecls(buf, 1)
                      /\ idx' = 1
    /\ aborted' = FALSE
    /\ log' = <<>>
    /\ returns' = <<>>
    /\ startTable' = ast_callback_map
    /\ startParam' = callback_parameter
    /\ inflightReg' = FALSE
    /\ UNCHANGED <<settings, ast_callback_map, callback_parameter, lastReg,
                   replaced, lastSetParam, prevError, bld>>

\* The traversal visits the next declaration: VisitFunctionDecl and
\* dispatchEvent for a function declaration, nothing for any other.
VisitDecl ==
    /\ pc = "walk"
    /\ ~aborted
    /\ idx <= Len(ast)
    /\ LET callback == LookupCallback(VisitorCallbackMap, "Function")
       IN  IF ast[idx].kind = "Function" /\ callback # NullCallback
           THEN /\ log' = Append(log, [node |-> ast[idx], cb |-> callback,
                                       param |-> VisitorCallbackParameter,
                                       live |-> ast_callback_map["Function"],
                                       liveParam |-> callback_parameter,
                                       latest |-> lastReg["Function"]])
                /\ pc' = "in_callback"
                /\ UNCHANGED idx
           ELSE /\ idx' = idx + 1
                /\ UNCHANGED <<log, pc>>
    /\ UNCHANGED <<settings, ast_callback_map, callback_parameter, buffer, compiler,
                   diag, ast, aborted, ret, returns, startTable, startParam,
                   inflightReg, lastReg, replaced, lastSetParam, prevError, allocFailed, bld>>

\* The callback returns; false stops the traversal.
CallbackReturn ==
    /\ pc = "in_callback"
    /\ \E result \in BOOLEAN :
          /\ returns' = Append(returns, result)
          /\ IF TraversalContinues(result)
             THEN idx' = idx + 1 /\ UNCHANGED aborted
             ELSE aborted' = TRUE /\ UNCHANGED idx
    /\ pc' = "walk"
    /\ UNCHANGED <<settings, ast_callback_map, callback_parameter, buffer, compiler,
                   diag, ast, ret, log, startTable, startParam, inflightReg,
                   lastReg, replaced, lastSetParam, prevError, allocFailed, bld>>

\* ParseAST has returned: EndSourceFile and the return statements.
Finish ==
    /\ pc = "walk"
    /\ aborted \/ idx > Len(ast)
    /\ ret' = ParseStatus(diag)
    /\ pc' = "returned"
    /\ UNCHANGED <<settings, ast_callback_map, callback_parameter, buffer, compiler,
                   diag, ast, idx, aborted, log, returns, startTable, startParam,
                   inflightReg, lastReg, replaced, lastSetParam, prevError, allocFailed, bld>>

\* The call's locals are destroyed and the caller has the Status.
Teardown ==
    /\ pc = "returned"
    /\ pc' = "idle"
    /\ prevError' = (ret.code = "CompilationError")
    /\ buffer' = <<>>
    /\ compiler' = NullCompiler
    /\ diag' = NewDiagnosticConsumer
    /\ ast' = <<>>
    /\ idx' = 0
    /\ aborted' = FALSE
    /\ ret' = NoStatus
    /\ log' = <<>>
    /\ returns' = <<>>
    /\ startTable' = NoTable
    /\ startParam' = "nullptr"
    /\ inflightReg' = FALSE
    /\ allocFailed' = FALSE
    /\ UNCHANGED <<settings, ast_callback_map, callback_parameter, lastReg,
                   replaced, lastSetParam, bld>>

Next ==
    \/ RegisterASTCallback
    \/ SetASTCallbackParameter
    \/ ProcessBuffer
    \/ VisitDecl
    \/ CallbackReturn
    \/ Finish
    \/ Teardown

Spec == Init /\ [][Next]_vars

InitBuilder == InitWith(DefaultSettings)

NextBuilder ==
    \/ CallBuilder
    \/ B_Reset
    \/ B_Allocate
    \/ B_HeaderSearch
    \/ B_CheckLanguage
    \/ B_AddIncludePaths
    \/ B_LanguageOptions
    \/ B_LanguageStandard
    \/ B_GnuOptions
    \/ B_Engine
    \/ B_Consumer
    \/ B_Commit

SpecBuilder == InitBuilder /\ [][NextBuilder]_vars

(***************************************************************************)
(* Properties                                                              *)
(***************************************************************************)
\* The call in flight has built its session.
SessionBuilt == ~compiler.null

Positions(buf, toks) == {i \in 1..Len(buf) : buf[i] \in toks}

\* The text the engine prints for buf: one line per "err" and "warn" token.
ExpectedText(buf) ==
    LET marks == SelectSeq([i \in 1..Len(buf) |-> <<buf[i], i>>],
                           LAMBDA m : m[1] \in {"err", "warn"})
    IN  [j \in 1..Len(marks) |->
            <<IF marks[j][1] = "err" THEN "error" ELSE "warning", marks[j][2]>>]

IsFunctionDecl(n) == n.kind = "Function"

FunctionDecls(decls) == SelectSeq(decls, IsFunctionDecl)

SupportedStandards(language) ==
    CASE language = "C" -> {89, 94, 99, 11}
      [] language = "CXX" -> {98, 11, 14}
      [] OTHER -> {}

Unsupported(s) == s.language_standard \notin SupportedStandards(s.language)

ConfigurationError(s) ==
    IF s.language \notin {"C", "CXX"} THEN "InvalidLanguage" ELSE "InvalidLanguageStandard"

\* C1: when the session was built, the Status processBuffer returns is decided
\* by the consumer's counts alone: errors give (false, CompilationError, the
\* captured text), else warnings give (true, CompilationWarning, the captured
\* text), else (true, Ok, empty); also when a callback stopped the walk.
C1_StatusFromCounts ==
    (pc = "returned" /\ SessionBuilt) =>
        /\ diag.NumErrors > 0 =>
              ret = [succeeded |-> FALSE, code |-> "CompilationError",
                     message |-> diag.clang_output_buffer]
        /\ (diag.NumErrors = 0 /\ diag.NumWarnings > 0) =>
              ret = [succeeded |-> TRUE, code |-> "CompilationWarning",
                     message |-> diag.clang_output_buffer]
        /\ (diag.NumErrors = 0 /\ diag.NumWarnings = 0) =>
              ret = [succeeded |-> TRUE, code |-> "Ok", message |-> <<>>]

\* C1 witness: errors and warnings together, a callback returned false, and
\* the call returned CompilationError with the text.
C1_Witness ==
    /\ pc = "returned"
    /\ SessionBuilt
    /\ aborted
    /\ diag.NumErrors > 0
    /\ diag.NumWarnings > 0
    /\ ret.code = "CompilationError"
    /\ ret.message # <<>>

\* C2 as stated: with unsupported settings every call returns succeeded=false
\* with the configuration-error code and invokes no callback.
C2_Original ==
    (Unsupported(settings) /\ pc # "idle") =>
        /\ pc = "returned"
        /\ ret = [succeeded |-> FALSE, code |-> ConfigurationError(settings),
                  message |-> <<>>]
        /\ log = <<>>

\* C2 amended: with unsupported settings every call returns the builder's
\* failing Status unchanged, which is the configuration-error code, or
\* MemoryAllocationFailure when the allocation of the session failed first,
\* and invokes no callback.
C2_Amended ==
    (Unsupported(settings) /\ pc # "idle") =>
        /\ pc = "returned"
        /\ ret = [succeeded |-> FALSE,
                  code |-> IF allocFailed THEN "MemoryAllocationFailure"
                           ELSE ConfigurationError(settings),
                  message |-> <<>>]
        /\ log = <<>>
        /\ returns = <<>>
        /\ ~SessionBuilt

\* C2 witness: a callback is registered, the settings are unsupported, and the
\* call on a buffer with a function declaration returned the configuration
\* error.
C2_Witness ==
    /\ Unsupported(settings)
    /\ pc = "returned"
    /\ ast_callback_map["Function"] \in Callbacks
    /\ \E i \in 1..Len(buffer) : buffer[i] = "func"
    /\ ret.code = ConfigurationError(settings)

C4_Original ==
    \A i \in 1..Len(log) : log[i].cb = startTable["Function"]

\* C4 amended: every dispatch invokes the callback the facade's table holds at
\* that dispatch, so a registration made during a call decides the remaining
\* dispatches of that call as well as the next call.
C4_Amended ==
    \A i \in 1..Len(log) : log[i].cb = log[i].live

\* C4 witness: a dispatch invoked a callback other than the one registered
\* when the call began.
C4_Witness ==
    \E i \in 1..Len(log) :
        /\ startTable["Function"] \in Callbacks
        /\ log[i].cb # startTable["Function"]

\* C5: every invocation receives the parameter the facade held when the call
\* began, and the facade's parameter is the value last given to
\* setASTCallbackParameter (null before the first).
C5_ParameterSnapshot ==
    /\ callback_parameter = lastSetParam
    /\ \A i \in 1..Len(log) : log[i].param = startParam

\* C5 witness: at a dispatch the facade's parameter had been replaced during
\* the call, and the callback still received the earlier value.
C5_Witness ==
    \E i \in 1..Len(log) :
        /\ log[i].liveParam # startParam
        /\ log[i].param = startParam
        /\ startParam # "nullptr"

\* C6: the table holds for each kind exactly the callback registered last, and
\* every dispatch invokes the callback registered last for the kind.
C6_LastRegistrationWins ==
    /\ \A type \in ASTCallbackTypes : ast_callback_map[type] = lastReg[type]
    /\ \A i \in 1..Len(log) : log[i].cb = log[i].latest

\* C6 witness: a registration replaced another callback between calls and a
\* later call dispatched.
C6_Witness ==
    /\ replaced
    /\ ~inflightReg
    /\ log # <<>>
    /\ log[1].cb = lastReg["Function"]

\* C7: the Status of a call is a function of the settings, the outcome of the
\* allocation and this call's buffer, and the invocations are function
\* declarations of this call's buffer in source order; nothing of an earlier
\* call enters.
C7_Independent ==
    pc = "returned" =>
        /\ ret =
              IF allocFailed
              THEN [succeeded |-> FALSE, code |-> "MemoryAllocationFailure", message |-> <<>>]
              ELSE IF Unsupported(settings)
              THEN [succeeded |-> FALSE, code |-> ConfigurationError(settings), message |-> <<>>]
              ELSE IF Positions(buffer, {"err"}) # {}
              THEN [succeeded |-> FALSE, code |-> "CompilationError",
                    message |-> ExpectedText(buffer)]
              ELSE IF Positions(buffer, {"warn"}) # {}
              THEN [succeeded |-> TRUE, code |-> "CompilationWarning",
                    message |-> ExpectedText(buffer)]
              ELSE [succeeded |-> TRUE, code |-> "Ok", message |-> <<>>]
        /\ \A i \in 1..Len(log) :
              /\ log[i].node.id \in Positions(buffer, {"func"})
              /\ \A j \in 1..Len(log) : i < j => log[i].node.id < log[j].node.id

\* C7 witness: the previous call returned CompilationError and this call, on
\* a buffer with a function declaration, returned Ok with an empty message.
C7_Witness ==
    /\ pc = "returned"
    /\ prevError
    /\ SessionBuilt
    /\ log # <<>>
    /\ ret = [succeeded |-> TRUE, code |-> "Ok", message |-> <<>>]

\* Every step of the builder is done on the session c, for the settings s and
\* the parameter p.
FullyConfigured(c, s, p) ==
    /\ ~c.null
    /\ c.UseBuiltinIncludes = "0"
    /\ c.UseStandardSystemIncludes = "0"
    /\ c.UseStandardCXXIncludes = "0"
    /\ c.ResourceDir = s.profile.resource_dir
    /\ c.UserEntries = ResolvedEntries(s)
    /\ c.CPlusPlus = (IF s.language = "CXX" THEN "1" ELSE "0")
    /\ c.RTTI = c.CPlusPlus
    /\ c.CXXExceptions = c.CPlusPlus
    /\ c.GNUMode = (IF s.enable_gnu_extensions THEN "1" ELSE "0")
    /\ c.GNUKeywords = "1"
    /\ c.Bool = "1"
    /\ Len(c.LangDefaults) = 2
    /\ c.LangDefaults[1] = s.language
    /\ c.Diagnostics /\ c.Target /\ c.FileManager /\ c.SourceManager
    /\ c.Preprocessor /\ c.Builtins /\ c.ASTContext
    /\ c.UsePredefines = "0"
    /\ c.ASTConsumer = <<[callback_parameter |-> p]>>

\* C8: the caller's handle is empty or holds a session on which every step
\* is done; a call returns either success with the handle holding the session
\* configured for its settings, or one of the three failure codes with the
\* handle empty.
C8_AllOrNothing ==
    /\ \/ bld.compiler.null
       \/ \E s \in SettingsSet, p \in Parameters :
             FullyConfigured(bld.compiler, s, p)
    /\ bld.pc = "returned" =>
          \/ /\ bld.status = [succeeded |-> TRUE, code |-> "Ok", message |-> <<>>]
             /\ FullyConfigured(bld.compiler, bld.settings, bld.callback_parameter)
          \/ /\ ~bld.status.succeeded
             /\ bld.status.code \in
                   {"MemoryAllocationFailure", "InvalidLanguage", "InvalidLanguageStandard"}
             /\ bld.compiler = NullCompiler

\* C8 witness: the handle held a session, the call failed on the language
\* standard, and the handle is empty.
C8_Witness ==
    /\ bld.pc = "returned"
    /\ bld.handle_was_set
    /\ bld.status.code = "InvalidLanguageStandard"
    /\ bld.compiler.null

\* C9: with the session allocated, the builder fails with InvalidLanguage for
\* a language other than C and C++, succeeds for C with 89, 94, 99, 11 and for
\* C++ with 98, 11, 14, and fails with InvalidLanguageStandard otherwise.
C9_Validation ==
    (bld.pc = "returned" /\ bld.alloc_ok) =>
        LET language == bld.settings.language
            standard == bld.settings.language_standard
        IN  IF language # "C" /\ language # "CXX"
            THEN bld.status = [succeeded |-> FALSE, code |-> "InvalidLanguage",
                               message |-> <<>>]
            ELSE IF \/ language = "C" /\ standard \in {89, 94, 99, 11}
                    \/ language = "CXX" /\ standard \in {98, 11, 14}
                 THEN bld.status.succeeded
                 ELSE bld.status = [succeeded |-> FALSE,
                                    code |-> "InvalidLanguageStandard",
                                    message |-> <<>>]

\* C9 witness: C with standard 94 succeeded.
C9_Witness ==
    /\ bld.pc = "returned"
    /\ bld.settings.language = "C"
    /\ bld.settings.language_standard = 94
    /\ bld.status.succeeded

\* The session object of the call: the local obj, and after a successful
\* return the session it was moved to.
SessionObject ==
    IF bld.pc = "returned" /\ bld.status.succeeded THEN bld.compiler ELSE bld.obj

LanguageChecked ==
    \/ "language" \in bld.validated
    \/ bld.pc = "returned" /\ bld.status.code = "InvalidLanguage"

DialectWritten ==
    \/ SessionObject.CPlusPlus # "default"
    \/ SessionObject.RTTI # "default"
    \/ SessionObject.CXXExceptions # "default"

LaterStepsUntouched ==
    /\ SessionObject.GNUMode = "default"
    /\ SessionObject.GNUKeywords = "default"
    /\ SessionObject.Bool = "default"
    /\ SessionObject.LangDefaults = <<>>
    /\ ~SessionObject.Diagnostics /\ ~SessionObject.Target /\ ~SessionObject.FileManager
    /\ ~SessionObject.SourceManager /\ ~SessionObject.Preprocessor /\ ~SessionObject.Builtins
    /\ SessionObject.UsePredefines = "default"
    /\ SessionObject.ASTConsumer = <<>>
    /\ ~SessionObject.ASTContext

\* C10 as stated: once the language is checked every resolved include path is
\* on the session, and no dialect option is written before language and
\* standard have both passed.
C10_Original ==
    /\ LanguageChecked => SessionObject.UserEntries = ResolvedEntries(bld.settings)
    /\ DialectWritten => {"language", "standard"} \subseteq bld.validated

\* C10 amended: the header search flags and the resource directory are set
\* before the language is checked; include paths are added only after the
\* language passed; C++ mode, RTTI and exceptions are written after the paths
\* and before the standard is checked; GNU mode and every later step are done
\* only after the standard passed; a failed check returns with the session
\* object as the last completed step left it.
C10_Amended ==
    /\ LanguageChecked =>
          /\ SessionObject.UseBuiltinIncludes = "0"
          /\ SessionObject.UseStandardSystemIncludes = "0"
          /\ SessionObject.UseStandardCXXIncludes = "0"
          /\ SessionObject.ResourceDir = bld.settings.profile.resource_dir
    /\ SessionObject.UserEntries # <<>> => "language" \in bld.validated
    /\ DialectWritten =>
          /\ "language" \in bld.validated
          /\ SessionObject.UserEntries = ResolvedEntries(bld.settings)
    /\ (bld.pc = "standard") => (DialectWritten /\ "standard" \notin bld.validated)
    /\ ~LaterStepsUntouched => "standard" \in bld.validated
    /\ (bld.pc = "returned" /\ bld.status.code = "InvalidLanguage") =>
          /\ SessionObject.UserEntries = <<>>
          /\ ~DialectWritten
          /\ LaterStepsUntouched
    /\ (bld.pc = "returned" /\ bld.status.code = "InvalidLanguageStandard") =>
          /\ DialectWritten
          /\ LaterStepsUntouched

\* C10 witness: the builder returned InvalidLanguageStandard with the include
\* paths added and the dialect options written.
C10_Witness ==
    /\ bld.pc = "returned"
    /\ bld.status.code = "InvalidLanguageStandard"
    /\ SessionObject.UserEntries # <<>>
    /\ SessionObject.CPlusPlus = "1"

====
